---- MODULE Spec2Model ----
(***************************************************************************)
(* Model of src/mflux/config/model_config.py: the ModelConfig record, the  *)
(* AVAILABLE_MODELS table, ModelConfig.from_name and                       *)
(* ModelConfig.x_embedder_input_dim.                                       *)
(*                                                                         *)
(* Python values are modelled as follows.                                  *)
(*   str            a TLA+ string (Len, \o and SubSeq act on characters)   *)
(*   str | None     a set: {} is None, {s} is the string s                 *)
(*   object         a record of its attributes; a reference to an object   *)
(*                  of the table is the table key, a reference to an       *)
(*                  object built by a call is NewRef                       *)
(*   dict           a sequence of [key, value] pairs in insertion order    *)
(***************************************************************************)
EXTENDS Integers, Sequences, FiniteSets, TLC

VARIABLES AVAILABLE_MODELS, args, default_base, ret, xcall

vars == <<AVAILABLE_MODELS, args, default_base, ret, xcall>>

(* ---------------------------------------------------------------------- *)
(* Bounds and inputs                                                      *)
(* ---------------------------------------------------------------------- *)

\* longest requested name, counted in fragments
MaxParts == 2

Fragments == {"dev", "-fill", "x"}

None == {}

Some(s) == {s}

\* Python truthiness of a str | None value
Truthy(opt) == opt # None /\ opt # Some("")

(* ---------------------------------------------------------------------- *)
(* ModelConfig                                                            *)
(* ---------------------------------------------------------------------- *)

ModelConfig(alias, model_name, base_model, controlnet_model, num_train_steps, max_sequence_length, supports_guidance, requires_sigma_shift, priority) ==
  [alias                |-> alias,
   model_name           |-> model_name,
   base_model           |-> base_model,
   controlnet_model     |-> controlnet_model,
   num_train_steps      |-> num_train_steps,
   max_sequence_length  |-> max_sequence_length,
   supports_guidance    |-> supports_guidance,
   requires_sigma_shift |-> requires_sigma_shift,
   priority             |-> priority]

\* the table as the module body builds it, in declaration order
ModuleTable ==
  << [key |-> "schnell", value |-> ModelConfig(Some("schnell"),
        "black-forest-labs/FLUX.1-schnell", None, None, 1000, 256, FALSE, FALSE, 2)],
     [key |-> "dev", value |-> ModelConfig(Some("dev"),
        "black-forest-labs/FLUX.1-dev", None, None, 1000, 512, TRUE, TRUE, 1)],
     [key |-> "dev-fill", value |-> ModelConfig(Some("dev-fill"),
        "black-forest-labs/FLUX.1-Fill-dev", None, None, 1000, 512, TRUE, TRUE, 0)],
     [key |-> "dev-depth", value |-> ModelConfig(Some("dev-depth"),
        "black-forest-labs/FLUX.1-Depth-dev", None, None, 1000, 512, TRUE, TRUE, 4)],
     [key |-> "dev-redux", value |-> ModelConfig(Some("dev-redux"),
        "black-forest-labs/FLUX.1-Redux-dev", None, None, 1000, 512, TRUE, TRUE, 3)],
     [key |-> "dev-controlnet-canny", value |-> ModelConfig(Some("dev-controlnet-canny"),
        "black-forest-labs/FLUX.1-dev", None,
        Some("InstantX/FLUX.1-dev-Controlnet-Canny"), 1000, 512, TRUE, TRUE, 5)],
     [key |-> "schnell-controlnet-canny", value |-> ModelConfig(Some("schnell-controlnet-canny"),
        "black-forest-labs/FLUX.1-schnell", None,
        Some("InstantX/FLUX.1-dev-Controlnet-Canny"), 1000, 256, FALSE, FALSE, 6)],
     [key |-> "dev-controlnet-upscaler", value |-> ModelConfig(Some("dev-controlnet-upscaler"),
        "black-forest-labs/FLUX.1-dev", None,
        Some("jasperai/Flux.1-dev-Controlnet-Upscaler"), 1000, 512, FALSE, FALSE, 7)],
     [key |-> "xulf-s", value |-> ModelConfig(Some("xulf-s"),
        "cocktailpeanut/xulf-s", None, None, 1000, 256, FALSE, FALSE, 9)],
     [key |-> "xulf-d", value |-> ModelConfig(Some("f-lite"),
        "cocktailpeanut/xulf-d", None, None, 1000, 512, TRUE, TRUE, 8)],
     [key |-> "f-lite", value |-> ModelConfig(Some("f-lite"),
        "Freepik/flux.1-lite-8B", None, None, 1000, 512, TRUE, TRUE, 10)],
     [key |-> "shuttle-3", value |-> ModelConfig(Some("shuttle-3"),
        "shuttleai/shuttle-3-diffusion", None, None, 1000, 256, FALSE, FALSE, 11)] >>

\* the object a table key refers to
Deref(reg, k) == reg[CHOOSE i \in 1..Len(reg) : reg[i].key = k].value

\* reference to an object constructed by the call that returns it
NewRef == "<new>"

NoObj == ModelConfig(None, "", None, None, 0, 0, FALSE, FALSE, 0)

(* ---------------------------------------------------------------------- *)
(* ModelConfig.x_embedder_input_dim                                       *)
(* ---------------------------------------------------------------------- *)

x_embedder_input_dim_swapped(self) ==
  IF self.alias = Some("dev-fill") THEN 128
  ELSE IF self.alias = Some("dev-depth") THEN 384
  ELSE 64

x_embedder_input_dim(self) ==
  IF self.alias = Some("dev-fill") THEN 384
  ELSE IF self.alias = Some("dev-depth") THEN 128
  ELSE 64

(* ---------------------------------------------------------------------- *)
(* ModelConfig.from_name, step by step                                    *)
(* ---------------------------------------------------------------------- *)

\* a in s, for Python strings
IsSubstring(a, s) ==
  \E i \in 1..(Len(s) - Len(a) + 1) : SubSeq(s, i, i + Len(a) - 1) = a

\* AVAILABLE_MODELS.values(): the objects in dict order, each with its reference
Values(reg) == reg

\* [model for model in ... if model.base_model is None]
Filter(models) == SelectSeq(models, LAMBDA m : m.value.base_model = None)

\* insert m behind every element whose priority is not greater (stable)
InsertByPriority(s, m) ==
  LET pos == Cardinality({i \in 1..Len(s) : s[i].value.priority <= m.value.priority})
  IN SubSeq(s, 1, pos) \o <<m>> \o SubSeq(s, pos + 1, Len(s))

RECURSIVE sorted(_)
\* sorted(models, key=lambda x: x.priority)
sorted(models) ==
  IF models = <<>> THEN <<>>
  ELSE InsertByPriority(sorted(SubSeq(models, 1, Len(models) - 1)), models[Len(models)])

base_models_unsorted(reg) == Filter(Values(reg))

\* step 0
base_models(reg) == sorted(Filter(Values(reg)))

\* s in (base.alias, base.model_name)
Names(base, s) == Some(s) = base.value.alias \/ s = base.value.model_name

\* next((b for b in bases if ...), None), by reference; hits are the indices that pass
First(bases, hits) ==
  IF hits = {} THEN None
  ELSE Some(bases[CHOOSE i \in hits : \A j \in hits : i <= j].key)

Last(bases, hits) ==
  IF hits = {} THEN None
  ELSE Some(bases[CHOOSE i \in hits : \A j \in hits : j <= i].key)

exact_match_last(bases, mn) ==
  Last(bases, {i \in 1..Len(bases) : Names(bases[i], mn)})

\* step 1
exact_match(bases, mn) ==
  First(bases, {i \in 1..Len(bases) : Names(bases[i], mn)})

RECURSIVE allowed_names_swapped(_)
allowed_names_swapped(bases) ==
  IF bases = <<>> THEN <<>>
  ELSE << Some(Head(bases).value.model_name), Head(bases).value.alias >>
       \o allowed_names_swapped(Tail(bases))

RECURSIVE allowed_names(_)
\* step 2, the list
allowed_names(bases) ==
  IF bases = <<>> THEN <<>>
  ELSE << Head(bases).value.alias, Some(Head(bases).value.model_name) >>
       \o allowed_names(Tail(bases))

\* x in list
InList(x, list) == \E i \in 1..Len(list) : list[i] = x

\* step 2, the test
invalid_base_model(bm, allowed) == Truthy(bm) /\ ~InList(bm, allowed)

\* b.alias and b.alias in mn
AliasWithin(b, mn) ==
  Truthy(b.value.alias) /\ \E a \in b.value.alias : IsSubstring(a, mn)

explicit_base_by_substring(bases, bm, mn) ==
  First(bases, {i \in 1..Len(bases) : AliasWithin(bases[i], mn)})

\* step 3, explicit
explicit_base(bases, bm, mn) ==
  First(bases, {i \in 1..Len(bases) :
                  bm = bases[i].value.alias \/ bm = Some(bases[i].value.model_name)})

inferred_base_by_equality(bases, mn) ==
  First(bases, {i \in 1..Len(bases) :
                  Truthy(bases[i].value.alias) /\ bases[i].value.alias = Some(mn)})

\* step 3, inferred
inferred_base(bases, mn) ==
  First(bases, {i \in 1..Len(bases) : AliasWithin(bases[i], mn)})

Synthesize_keeps_base_fields(mn, b) ==
  ModelConfig(b.alias, b.model_name, b.base_model, b.controlnet_model,
              b.num_train_steps, b.max_sequence_length, b.supports_guidance,
              b.requires_sigma_shift, b.priority)

\* step 4
Synthesize(mn, b) ==
  ModelConfig(b.alias, mn, Some(b.model_name), b.controlnet_model,
              b.num_train_steps, b.max_sequence_length, b.supports_guidance,
              b.requires_sigma_shift, b.priority)

\* outcomes of a call
NoRet == [kind |-> "none", exc |-> "", allowed_names |-> <<>>, about |-> "",
          ref |-> "", obj |-> NoObj]

Return(ref, obj) == [NoRet EXCEPT !.kind = "return", !.ref = ref, !.obj = obj]

Raise(exc, allowed, about) ==
  [NoRet EXCEPT !.kind = "raise", !.exc = exc, !.allowed_names = allowed, !.about = about]

Outcome(r, db) == [ret |-> r, default_base |-> db]

\* steps 3 and 4
select_and_construct(reg, bases, mn, bm) ==
  IF Truthy(bm)
  THEN LET db == explicit_base(bases, bm, mn)
       IN IF db = None
          THEN Outcome(Raise("AttributeError", <<>>, ""), None)
          ELSE Outcome(Return(NewRef, Synthesize(mn, Deref(reg, CHOOSE k \in db : TRUE))), db)
  ELSE LET db == inferred_base(bases, mn)
       IN IF db = None
          THEN Outcome(Raise("ModelConfigError", <<>>, mn), None)
          ELSE Outcome(Return(NewRef, Synthesize(mn, Deref(reg, CHOOSE k \in db : TRUE))), db)

from_name_validating_first(reg, mn, bm) ==
  LET bases   == base_models(reg)
      exact   == exact_match(bases, mn)
      allowed == allowed_names(bases)
  IN IF invalid_base_model(bm, allowed)
     THEN Outcome(Raise("InvalidBaseModel", allowed, ""), None)
     ELSE IF exact # None
     THEN Outcome(Return(CHOOSE k \in exact : TRUE,
                         Deref(reg, CHOOSE k \in exact : TRUE)), None)
     ELSE select_and_construct(reg, bases, mn, bm)

\* the value from_name(mn, bm) computes over the table reg
from_name_outcome(reg, mn, bm) ==
  LET bases   == base_models(reg)
      exact   == exact_match(bases, mn)
      allowed == allowed_names(bases)
  IN IF exact # None
     THEN Outcome(Return(CHOOSE k \in exact : TRUE,
                         Deref(reg, CHOOSE k \in exact : TRUE)), None)
     ELSE IF invalid_base_model(bm, allowed)
     THEN Outcome(Raise("InvalidBaseModel", allowed, ""), None)
     ELSE select_and_construct(reg, bases, mn, bm)

(* ---------------------------------------------------------------------- *)
(* Inputs                                                                 *)
(* ---------------------------------------------------------------------- *)

RECURSIVE Concats(_)
Concats(n) ==
  IF n = 0 THEN {""}
  ELSE Concats(n - 1) \cup {a \o f : a \in Concats(n - 1), f \in Fragments}

TableNames ==
  UNION {ModuleTable[i].value.alias : i \in 1..Len(ModuleTable)}
  \cup {ModuleTable[i].value.model_name : i \in 1..Len(ModuleTable)}

ExtraNames == {"some-custom-name-dev-v2", "unrecognizable-name", "custom",
               "my/f-lite-shuttle-3-merge", "schnell-dev-merge",
               "my-dev-fill-lora"}

NameInputs == Concats(MaxParts) \cup TableNames \cup ExtraNames

HintInputs == {None, Some(""), Some("dev"), Some("f-lite"),
               Some("black-forest-labs/FLUX.1-dev"), Some("not-a-real-model")}

\* records a caller builds directly with the constructor
ConstructorInputs ==
  {ModelConfig(a, "custom", b, None, 1000, s, TRUE, TRUE, 0) :
     a \in {None, Some("dev-fill"), Some("dev-depth"), Some("dev")},
     b \in {None, Some("black-forest-labs/FLUX.1-dev")},
     s \in {256, 512}}

(* ---------------------------------------------------------------------- *)
(* State machine                                                          *)
(* ---------------------------------------------------------------------- *)

NoArgs == [called |-> FALSE, model_name |-> "", base_model |-> None]

NoXCall == [called |-> FALSE, self |-> NoObj, result |-> 0]

Init ==
  /\ AVAILABLE_MODELS = ModuleTable
  /\ args = NoArgs
  /\ default_base = None
  /\ ret = NoRet
  /\ xcall = NoXCall

from_name_registering(mn, bm) ==
  LET out == from_name_outcome(AVAILABLE_MODELS, mn, bm)
  IN /\ args' = [called |-> TRUE, model_name |-> mn, base_model |-> bm]
     /\ ret' = out.ret
     /\ default_base' = out.default_base
     /\ xcall' = NoXCall
     /\ AVAILABLE_MODELS' =
          IF out.ret.kind = "return" /\ out.ret.ref = NewRef
          THEN Append(AVAILABLE_MODELS, [key |-> mn, value |-> out.ret.obj])
          ELSE AVAILABLE_MODELS

\* ModelConfig.from_name(mn, bm)
from_name(mn, bm) ==
  LET out == from_name_outcome(AVAILABLE_MODELS, mn, bm)
  IN /\ args' = [called |-> TRUE, model_name |-> mn, base_model |-> bm]
     /\ ret' = out.ret
     /\ default_base' = out.default_base
     /\ xcall' = NoXCall
     /\ UNCHANGED AVAILABLE_MODELS

\* ModelConfig(...) called by client code
ModelConfig_init(obj) ==
  /\ args' = NoArgs
  /\ ret' = Return(NewRef, obj)
  /\ default_base' = None
  /\ xcall' = NoXCall
  /\ UNCHANGED AVAILABLE_MODELS

\* x_embedder_input_dim() on a table entry
x_embedder_input_dim_of_entry(k) ==
  /\ xcall' = [called |-> TRUE, self |-> Deref(AVAILABLE_MODELS, k),
               result |-> x_embedder_input_dim(Deref(AVAILABLE_MODELS, k))]
  /\ args' = NoArgs
  /\ ret' = NoRet
  /\ default_base' = None
  /\ UNCHANGED AVAILABLE_MODELS

\* x_embedder_input_dim() on the record the last call returned
x_embedder_input_dim_of_ret ==
  /\ ret.kind = "return"
  /\ xcall' = [called |-> TRUE, self |-> ret.obj,
               result |-> x_embedder_input_dim(ret.obj)]
  /\ UNCHANGED <<AVAILABLE_MODELS, args, default_base, ret>>

Next ==
  \/ \E mn \in NameInputs, bm \in HintInputs : from_name(mn, bm)
  \/ \E obj \in ConstructorInputs : ModelConfig_init(obj)
  \/ \E i \in 1..Len(AVAILABLE_MODELS) : x_embedder_input_dim_of_entry(AVAILABLE_MODELS[i].key)
  \/ x_embedder_input_dim_of_ret

Spec == Init /\ [][Next]_vars

(* ---------------------------------------------------------------------- *)
(* Vocabulary of the properties, stated over the table itself             *)
(* ---------------------------------------------------------------------- *)

Entries == 1..Len(AVAILABLE_MODELS)

IsBase(i) == AVAILABLE_MODELS[i].value.base_model = None

\* entry i is named n, by alias or by model_name
NamedBy(i, n) ==
  \/ AVAILABLE_MODELS[i].value.alias = Some(n)
  \/ AVAILABLE_MODELS[i].value.model_name = n

\* the alias of entry i occurs in n
AliasIn(i, n) ==
  \E a \in AVAILABLE_MODELS[i].value.alias : a # "" /\ IsSubstring(a, n)

\* entry i comes before entry j in priority order, ties in declaration order
Precedes(i, j) ==
  \/ AVAILABLE_MODELS[i].value.priority < AVAILABLE_MODELS[j].value.priority
  \/ /\ AVAILABLE_MODELS[i].value.priority = AVAILABLE_MODELS[j].value.priority
     /\ i < j

\* i is the first base entry, in priority order, among the entries in S
IsFirstBase(i, S) ==
  /\ IsBase(i) /\ i \in S
  /\ \A j \in S \ {i} : IsBase(j) => Precedes(i, j)

ExactName(n) == \E i \in Entries : IsBase(i) /\ NamedBy(i, n)

ValidHint(h) == \E i \in Entries : IsBase(i) /\ \E s \in h : NamedBy(i, s)

\* the identifiers of the base models, alias then model_name, by ascending priority
ExpectedAllowedNames ==
  << Some("dev-fill"), Some("black-forest-labs/FLUX.1-Fill-dev"),
     Some("dev"), Some("black-forest-labs/FLUX.1-dev"),
     Some("schnell"), Some("black-forest-labs/FLUX.1-schnell"),
     Some("dev-redux"), Some("black-forest-labs/FLUX.1-Redux-dev"),
     Some("dev-depth"), Some("black-forest-labs/FLUX.1-Depth-dev"),
     Some("dev-controlnet-canny"), Some("black-forest-labs/FLUX.1-dev"),
     Some("schnell-controlnet-canny"), Some("black-forest-labs/FLUX.1-schnell"),
     Some("dev-controlnet-upscaler"), Some("black-forest-labs/FLUX.1-dev"),
     Some("f-lite"), Some("cocktailpeanut/xulf-d"),
     Some("xulf-s"), Some("cocktailpeanut/xulf-s"),
     Some("f-lite"), Some("Freepik/flux.1-lite-8B"),
     Some("shuttle-3"), Some("shuttleai/shuttle-3-diffusion") >>

\* the returned record agrees with b in every attribute but model_name and base_model
CopiedFrom(obj, b) ==
  /\ obj.alias = b.alias
  /\ obj.controlnet_model = b.controlnet_model
  /\ obj.num_train_steps = b.num_train_steps
  /\ obj.max_sequence_length = b.max_sequence_length
  /\ obj.supports_guidance = b.supports_guidance
  /\ obj.requires_sigma_shift = b.requires_sigma_shift
  /\ obj.priority = b.priority

(* ---------------------------------------------------------------------- *)
(* C1                                                                     *)
(* ---------------------------------------------------------------------- *)

\* C1 as stated: from_name(B.alias) and from_name(B.model_name), without a
\* hint, return a record equal to B for every entry B of the table.
C1_AsStated ==
  args.called /\ args.base_model = None =>
    \A i \in Entries : IsBase(i) /\ NamedBy(i, args.model_name) =>
      ret.kind = "return" /\ ret.obj = AVAILABLE_MODELS[i].value

\* C1 amended: from_name(B.alias) and from_name(B.model_name), without a hint,
\* return the first entry in ascending priority order that carries the name as
\* alias or model_name. That entry is B for every alias but that of the entry
\* keyed "f-lite" (the entry keyed "xulf-d" is returned) and for every
\* model_name but those of the three controlnet entries (the entries keyed
\* "dev" and "schnell" are returned).
C1_FirstNamedEntry ==
  args.called /\ args.base_model = None =>
    \A i \in Entries : IsBase(i) /\ NamedBy(i, args.model_name) =>
      LET B == AVAILABLE_MODELS[i]
          n == args.model_name
          Named == {j \in Entries : NamedBy(j, n)}
      IN /\ ret.kind = "return"
         /\ \E j \in Entries : /\ IsFirstBase(j, Named)
                               /\ ret.ref = AVAILABLE_MODELS[j].key
                               /\ ret.obj = AVAILABLE_MODELS[j].value
         /\ B.value.alias = Some(n) /\ B.key # "f-lite" => ret.obj = B.value
         /\ B.value.model_name = n
              /\ B.key \notin {"dev-controlnet-canny", "schnell-controlnet-canny",
                               "dev-controlnet-upscaler"}
              => ret.obj = B.value
         /\ n = "f-lite" => ret.ref = "xulf-d"
         /\ n = "black-forest-labs/FLUX.1-dev" => ret.ref = "dev"
         /\ n = "black-forest-labs/FLUX.1-schnell" => ret.ref = "schnell"

C1_Witness ==
  /\ args.called /\ args.base_model = None
  /\ args.model_name = "black-forest-labs/FLUX.1-dev"
  /\ ret.kind = "return" /\ ret.ref = "dev"

(* ---------------------------------------------------------------------- *)
(* C2                                                                     *)
(* ---------------------------------------------------------------------- *)

RaisedInvalidBaseModel ==
  /\ ret.kind = "raise"
  /\ ret.exc = "InvalidBaseModel"
  /\ ret.allowed_names = ExpectedAllowedNames

\* C2 as stated: a name that is no exact match, with any supplied hint (the
\* empty string included) that names no base model, fails with
\* InvalidBaseModel, the message listing the identifiers in priority order.
C2_AsStated ==
  args.called /\ ~ExactName(args.model_name)
    /\ args.base_model # None /\ ~ValidHint(args.base_model)
    => RaisedInvalidBaseModel

\* C2 amended: a name that is no exact match, with any supplied non-empty hint
\* that names no base model, fails with InvalidBaseModel and returns no record;
\* the message lists alias then model_name of every base model in ascending
\* priority order.
C2_NonEmptyInvalidHint ==
  args.called /\ ~ExactName(args.model_name)
    /\ args.base_model # None /\ args.base_model # Some("")
    /\ ~ValidHint(args.base_model)
    => RaisedInvalidBaseModel

C2_Witness ==
  /\ args.called /\ args.model_name = "custom"
  /\ args.base_model = Some("not-a-real-model")
  /\ ret.kind = "raise" /\ ret.exc = "InvalidBaseModel"

(* ---------------------------------------------------------------------- *)
(* C3                                                                     *)
(* ---------------------------------------------------------------------- *)

\* C3: without a hint, from_name raises ModelConfigError about model_name
\* exactly when the name is no exact match and contains no base alias; every
\* other call without a hint returns a record.
C3_InferenceError ==
  args.called /\ args.base_model = None =>
    IF ~ExactName(args.model_name)
       /\ ~\E i \in Entries : IsBase(i) /\ AliasIn(i, args.model_name)
    THEN ret.kind = "raise" /\ ret.exc = "ModelConfigError"
         /\ ret.about = args.model_name
    ELSE ret.kind = "return"

C3_Witness ==
  /\ args.called /\ args.base_model = None
  /\ args.model_name = "unrecognizable-name"
  /\ ret.kind = "raise" /\ ret.exc = "ModelConfigError"

(* ---------------------------------------------------------------------- *)
(* C4                                                                     *)
(* ---------------------------------------------------------------------- *)

\* C4: without a hint and without an exact match, the selected base is the
\* first base in ascending priority order (ties in declaration order) whose
\* alias occurs in model_name; no base with a lower priority has its alias in
\* the name.
C4_LowestPriorityAlias ==
  args.called /\ args.base_model = None /\ ~ExactName(args.model_name)
    /\ ret.kind = "return" =>
      LET Contained == {j \in Entries : AliasIn(j, args.model_name)}
      IN \E i \in Entries :
           /\ default_base = Some(AVAILABLE_MODELS[i].key)
           /\ IsFirstBase(i, Contained)
           /\ ret.obj.priority = AVAILABLE_MODELS[i].value.priority
           /\ \A j \in Entries :
                IsBase(j) /\ AVAILABLE_MODELS[j].value.priority
                               < AVAILABLE_MODELS[i].value.priority
                  => j \notin Contained

C4_Witness ==
  /\ args.called /\ args.base_model = None
  /\ args.model_name = "schnell-dev-merge"
  /\ default_base = Some("dev")

(* ---------------------------------------------------------------------- *)
(* C5                                                                     *)
(* ---------------------------------------------------------------------- *)

HintedCall(a) ==
  a.called /\ ~ExactName(a.model_name) /\ ValidHint(a.base_model)

C5_SelectedByHint ==
  HintedCall(args) =>
    LET Hinted == {j \in Entries : \E s \in args.base_model : NamedBy(j, s)}
    IN /\ ret.kind = "return" /\ ret.ref = NewRef
       /\ \E i \in Entries :
            /\ IsFirstBase(i, Hinted)
            /\ default_base = Some(AVAILABLE_MODELS[i].key)
            /\ ret.obj.alias = AVAILABLE_MODELS[i].value.alias
            /\ ret.obj.base_model = Some(AVAILABLE_MODELS[i].value.model_name)
       /\ args.base_model = Some("dev") =>
            /\ ret.obj.alias = Some("dev")
            /\ ret.obj.base_model = Some("black-forest-labs/FLUX.1-dev")

C5_SameHintSameRecord ==
  HintedCall(args) /\ HintedCall(args') /\ args.base_model = args'.base_model
    => /\ ret.kind = "return" /\ ret'.kind = "return"
       /\ [ret.obj EXCEPT !.model_name = ""] = [ret'.obj EXCEPT !.model_name = ""]
       /\ ret.obj.model_name = args.model_name
       /\ ret'.obj.model_name = args'.model_name

\* C5: with a valid hint and without an exact match, the selected base is the
\* first base in priority order whose alias or model_name is the hint,
\* whatever aliases occur in model_name; two such calls with the same hint
\* return records that differ in model_name only; the hint "dev" yields alias
\* "dev" and the model_name of the "dev" base as base_model.
C5_HintSelectsBase == []C5_SelectedByHint /\ [][C5_SameHintSameRecord]_vars

C5_Witness ==
  /\ args.called /\ args.model_name = "schnell-dev-merge"
  /\ args.base_model = Some("f-lite")
  /\ ret.kind = "return" /\ default_base = Some("xulf-d")

(* ---------------------------------------------------------------------- *)
(* C6                                                                     *)
(* ---------------------------------------------------------------------- *)

\* C6: a record from_name returns for a name that is no exact match carries
\* the requested model_name, the selected base's model_name as base_model
\* (never None) and every other attribute of the selected base;
\* "some-custom-name-dev-v2" without a hint yields the "dev" base's fields.
C6_SynthesizedFields ==
  args.called /\ ~ExactName(args.model_name) /\ ret.kind = "return" =>
    /\ ret.ref = NewRef
    /\ ret.obj.model_name = args.model_name
    /\ ret.obj.base_model # None
    /\ \E i \in Entries :
         /\ default_base = Some(AVAILABLE_MODELS[i].key)
         /\ IsBase(i)
         /\ ret.obj.base_model = Some(AVAILABLE_MODELS[i].value.model_name)
         /\ CopiedFrom(ret.obj, AVAILABLE_MODELS[i].value)
    /\ args.model_name = "some-custom-name-dev-v2" /\ args.base_model = None =>
         ret.obj = ModelConfig(Some("dev"), "some-custom-name-dev-v2",
                               Some("black-forest-labs/FLUX.1-dev"), None,
                               1000, 512, TRUE, TRUE, 1)

C6_Witness ==
  /\ args.called /\ args.base_model = None
  /\ args.model_name = "some-custom-name-dev-v2"
  /\ ret.kind = "return" /\ ret.ref = NewRef

(* ---------------------------------------------------------------------- *)
(* C7                                                                     *)
(* ---------------------------------------------------------------------- *)

\* C7: whatever calls were made, the table has the keys and the attribute
\* values it was initialized with; no synthesized record is in it.
C7_TableUnchanged ==
  /\ AVAILABLE_MODELS = ModuleTable
  /\ ret.kind = "return" /\ ret.ref = NewRef =>
       \A i \in Entries : AVAILABLE_MODELS[i].key # args.model_name
                          \/ AVAILABLE_MODELS[i].value # ret.obj

C7_Witness ==
  /\ args.called /\ args.model_name = "xdev"
  /\ ret.kind = "return" /\ ret.ref = NewRef
  /\ Len(AVAILABLE_MODELS) = 12

(* ---------------------------------------------------------------------- *)
(* C8                                                                     *)
(* ---------------------------------------------------------------------- *)

\* C8: no two distinct entries of the table carry the same alias.
C8_AliasUnique ==
  \A i, j \in Entries :
    i # j /\ AVAILABLE_MODELS[i].value.alias # None
      => AVAILABLE_MODELS[i].value.alias # AVAILABLE_MODELS[j].value.alias

(* ---------------------------------------------------------------------- *)
(* C9                                                                     *)
(* ---------------------------------------------------------------------- *)

C9_Table ==
  xcall.called =>
    /\ xcall.result \in {384, 128, 64}
    /\ xcall.result = 384 <=> xcall.self.alias = Some("dev-fill")
    /\ xcall.result = 128 <=> xcall.self.alias = Some("dev-depth")

C9_AliasOnly ==
  xcall.called /\ xcall'.called /\ xcall.self.alias = xcall'.self.alias
    => xcall.result = xcall'.result

\* C9: x_embedder_input_dim() is 384 for alias "dev-fill", 128 for alias
\* "dev-depth" and 64 for any other alias, None included, for table entries
\* and returned records alike; records with the same alias get the same value.
C9_EmbedderDim == []C9_Table /\ [][C9_AliasOnly]_vars

C9_Witness ==
  /\ xcall.called /\ args.called
  /\ xcall.self.alias = Some("dev-fill")
  /\ xcall.self.base_model # None
  /\ xcall.result = 384

(* ---------------------------------------------------------------------- *)
(* C10                                                                    *)
(* ---------------------------------------------------------------------- *)

\* C10: a name that is the alias or model_name of a base model returns, for
\* any hint (absent, valid or invalid), the first such base in priority order
\* itself, not a copy, and raises nothing.
C10_ExactMatchFirst ==
  args.called /\ ExactName(args.model_name) =>
    LET Named == {j \in Entries : NamedBy(j, args.model_name)}
    IN /\ ret.kind = "return"
       /\ ret.ref # NewRef
       /\ \E i \in Entries : /\ IsFirstBase(i, Named)
                             /\ ret.ref = AVAILABLE_MODELS[i].key
                             /\ ret.obj = AVAILABLE_MODELS[i].value

C10_Witness ==
  /\ args.called /\ args.model_name = "schnell"
  /\ args.base_model = Some("not-a-real-model")
  /\ ret.kind = "return" /\ ret.ref = "schnell"

====
